---- MODULE Spec2Model ----
(***************************************************************************)
(* The maze generator and depth-first solver of maze.py as a state         *)
(* machine.  A Maze object is driven either by the script of maze.py's     *)
(* __main__ block (lines 287-294) or by a unit-test style harness that     *)
(* calls its methods in any order (tests.py).  The recursive methods       *)
(* _break_walls_r and _solve_r run on an explicit call stack, one loop     *)
(* iteration or one return per step.                                       *)
(***************************************************************************)
EXTENDS Integers, Sequences, FiniteSets, TLC

\* ------------------------------------------------------------------ bounds
\* The grids of the program have at most MaxCells cells, those of the tests at
\* most MaxTestCells; cell sizes go from 0 to MaxCellSize; a test makes at most
\* MaxCalls calls.
MaxCells == 6
MaxTestCells == 4
MaxCellSize == 1
MaxCalls == 3

VARIABLES
  maze,        \* the dataclass fields of Maze other than _cells
  _cells,      \* Maze._cells: id = 0 is None, otherwise the identity of the list
  pc,          \* "idle", "carving", "solving" or "raised"
  stack,       \* the frames of _break_walls_r / _solve_r that are active
  trace,       \* the draw_move calls of the running / latest solve
  result,      \* what the latest solve returned: "none", "true", "false"
  raised,      \* the exception that ended the program, "none" otherwise
  astar,       \* the steps returned by the latest A* solve
  last,        \* the latest top-level call and its arguments
  main_pc,     \* the line of __main__ to run next; 0 under the test harness
  ncalls,      \* top-level calls made by the test harness
  run,         \* which run of __main__ this is (1 or 2)
  first_walls  \* the wall flags the first run of __main__ generated

vars == <<maze, _cells, pc, stack, trace, result, raised, astar, last,
          main_pc, ncalls, run, first_walls>>

drivervars == <<main_pc, ncalls, run, first_walls>>

\* ----------------------------------------------------------- data model
Coords(num_rows, num_cols) == (0 .. num_rows - 1) \X (0 .. num_cols - 1)

Cell(x1, y1, x2, y2) ==
  [x1 |-> x1, y1 |-> y1, x2 |-> x2, y2 |-> y2,
   has_left_wall |-> TRUE, has_top_wall |-> TRUE,
   has_right_wall |-> TRUE, has_bottom_wall |-> TRUE,
   visited |-> FALSE]

\* models.py: the geometry check of Cell.__post_init__ (TRUE = raises).
Cell__post_init__(x1, y1, x2, y2) == x1 >= x2 \/ y1 >= y2

create_cells(x1, y1, num_rows, num_cols, cell_size_x, cell_size_y) ==
  [p \in Coords(num_rows, num_cols) |->
     LET x_start == x1 + p[2] * cell_size_x
         y_start == y1 + p[1] * cell_size_y
     IN  Cell(x_start, y_start, x_start + cell_size_x, y_start + cell_size_y)]

None == [id |-> 0, grid |-> << >>]

\* cells without the `is None` test: a new list on every access.
cells_regenerate(c) ==
  [id |-> c.id + 1,
   grid |-> create_cells(maze.x1, maze.y1, maze.num_rows, maze.num_cols,
                         maze.cell_size_x, maze.cell_size_y)]

\* The cells property: lazy construction, then the stored list.
cells(c) ==
  IF c.id = 0
    THEN [id |-> 1,
          grid |-> create_cells(maze.x1, maze.y1, maze.num_rows, maze.num_cols,
                                maze.cell_size_x, maze.cell_size_y)]
    ELSE c

\* The exit indexed with num_rows twice.
Exit_rows_twice == <<maze.num_rows - 1, maze.num_rows - 1>>

\* The exit cell, cells[num_rows-1][num_cols-1].
Exit == <<maze.num_rows - 1, maze.num_cols - 1>>

NoCall == [op |-> "none", args |-> << >>]

\* -------------------------------------------------------------- helpers
Range(s) == {s[k] : k \in 1 .. Len(s)}

\* Every order random.shuffle can leave the list in.
shuffle(s) ==
  {p \in [1 .. Len(s) -> Range(s)] : \A e \in Range(s) : \E k \in 1 .. Len(s) : p[k] = e}

_get_neighbors(i, j) ==
  (IF i > 0 THEN << <<i - 1, j>> >> ELSE << >>) \o
  (IF j > 0 THEN << <<i, j - 1>> >> ELSE << >>) \o
  (IF i < maze.num_rows - 1 THEN << <<i + 1, j>> >> ELSE << >>) \o
  (IF j < maze.num_cols - 1 THEN << <<i, j + 1>> >> ELSE << >>)

\* _break_walls_between clearing the flag of cell1 only.
_break_walls_between_one_side(g, c1, c2) ==
  IF c1[1] = c2[1]
    THEN IF c1[2] < c2[2]
           THEN [g EXCEPT ![c1].has_right_wall = FALSE]
           ELSE [g EXCEPT ![c1].has_left_wall = FALSE]
    ELSE IF c1[2] = c2[2]
           THEN IF c1[1] < c2[1]
                  THEN [g EXCEPT ![c1].has_bottom_wall = FALSE]
                  ELSE [g EXCEPT ![c1].has_top_wall = FALSE]
           ELSE g

\* The grid after _break_walls_between(cell1, i1, j1, cell2, i2, j2) when it
\* does not raise.
_break_walls_between(g, c1, c2) ==
  IF c1[1] = c2[1]
    THEN IF c1[2] < c2[2]
           THEN [[g EXCEPT ![c1].has_right_wall = FALSE]
                    EXCEPT ![c2].has_left_wall = FALSE]
           ELSE [[g EXCEPT ![c1].has_left_wall = FALSE]
                    EXCEPT ![c2].has_right_wall = FALSE]
    ELSE IF c1[2] = c2[2]
           THEN IF c1[1] < c2[1]
                  THEN [[g EXCEPT ![c1].has_bottom_wall = FALSE]
                           EXCEPT ![c2].has_top_wall = FALSE]
                  ELSE [[g EXCEPT ![c1].has_top_wall = FALSE]
                           EXCEPT ![c2].has_bottom_wall = FALSE]
           ELSE g

\* _break_walls_between reaches its raise statement.
_break_walls_between_raises(c1, c2) == c1[1] # c2[1] /\ c1[2] # c2[2]

Raise(exc, c) ==
  /\ pc' = "raised"
  /\ raised' = exc
  /\ _cells' = c
  /\ stack' = << >>

\* ------------------------------------------------------------------ Init
\* The state after Maze(x1, y1, num_rows, num_cols, cell_size_x, cell_size_y,
\* seed=0): the dataclass stores its arguments and checks nothing.
Constructed(nr, nc, sx, sy) ==
  /\ maze = [x1 |-> 0, y1 |-> 0, num_rows |-> nr, num_cols |-> nc,
             cell_size_x |-> sx, cell_size_y |-> sy, seed |-> 0]
  /\ _cells = None
  /\ pc = "idle"
  /\ stack = << >>
  /\ trace = << >>
  /\ result = "none"
  /\ raised = "none"
  /\ astar = << >>
  /\ last = NoCall
  /\ ncalls = 0
  /\ run = 1
  /\ first_walls = << >>

\* __main__ has constructed its Maze (line 287), with any arguments.
Init ==
  /\ \E nr \in 0 .. MaxCells, nc \in 0 .. MaxCells,
        sx \in 0 .. MaxCellSize, sy \in 0 .. MaxCellSize :
       nr * nc <= MaxCells /\ Constructed(nr, nc, sx, sy)
  /\ main_pc = 289

\* A test of tests.py has constructed its Maze, as all of them do with
\* rows, cols >= 1 and a positive cell size.
TestInit ==
  /\ \E nr \in 1 .. MaxTestCells, nc \in 1 .. MaxTestCells :
       nr * nc <= MaxTestCells /\ Constructed(nr, nc, 1, 1)
  /\ main_pc = 0

\* ------------------------------------------------- the methods of Maze
\* Maze._break_entrance_and_exit
BreakEntranceAndExit ==
  /\ pc = "idle"
  /\ last' = [op |-> "_break_entrance_and_exit", args |-> << >>]
  /\ LET c == cells(_cells) IN
       IF <<0, 0>> \notin DOMAIN c.grid
         THEN Raise("IndexError", c)
         ELSE /\ _cells' =
                   [c EXCEPT !.grid =
                      [[@ EXCEPT ![<<0, 0>>].has_left_wall = FALSE,
                                 ![<<0, 0>>].has_top_wall = FALSE]
                          EXCEPT ![Exit].has_right_wall = FALSE,
                                 ![Exit].has_bottom_wall = FALSE]]
              /\ UNCHANGED <<pc, raised, stack>>
  /\ UNCHANGED <<maze, trace, result, astar>>

\* Entering _break_walls_r(cell, i, j): lines 136-142.
EnterBreakWallsR(c, ij) ==
  LET g == [c.grid EXCEPT ![ij].visited = TRUE]
      nbrs == _get_neighbors(ij[1], ij[2])
  IN  IF nbrs = << >>
        THEN Raise("ValueError", [c EXCEPT !.grid = g])
        ELSE /\ \E order \in shuffle(nbrs) :
                  stack' = Append(stack, [i |-> ij[1], j |-> ij[2],
                                          neighbors |-> order, idx |-> 1])
             /\ _cells' = [c EXCEPT !.grid = g]
             /\ pc' = "carving"
             /\ UNCHANGED raised

\* maze._break_walls_r(maze.cells[0][0], 0, 0)
BreakWallsR ==
  /\ pc = "idle"
  /\ last' = [op |-> "_break_walls_r", args |-> <<0, 0>>]
  /\ LET c == cells(_cells) IN
       IF <<0, 0>> \notin DOMAIN c.grid
         THEN Raise("IndexError", c)
         ELSE EnterBreakWallsR(c, <<0, 0>>)
  /\ UNCHANGED <<maze, trace, result, astar>>

\* One iteration of the loop of _break_walls_r: lines 144-148.
BreakWallsRLoop ==
  /\ pc = "carving"
  /\ LET f == stack[Len(stack)] IN
       /\ f.idx <= Len(f.neighbors)
       /\ LET n == f.neighbors[f.idx] IN
            IF ~ _cells.grid[n].visited
              THEN IF _break_walls_between_raises(<<f.i, f.j>>, n)
                     THEN Raise("Exception", _cells)
                     ELSE EnterBreakWallsR(
                            [_cells EXCEPT !.grid =
                               _break_walls_between(@, <<f.i, f.j>>, n)], n)
              ELSE /\ stack' = [stack EXCEPT ![Len(stack)].idx = @ + 1]
                   /\ UNCHANGED <<_cells, pc, raised>>
  /\ UNCHANGED <<maze, trace, result, astar, last>>
  /\ UNCHANGED drivervars

\* _break_walls_r falls off the end of its loop and returns to its caller.
BreakWallsRReturn ==
  /\ pc = "carving"
  /\ LET f == stack[Len(stack)] IN f.idx > Len(f.neighbors)
  /\ IF Len(stack) = 1
       THEN /\ stack' = << >>
            /\ pc' = "idle"
       ELSE /\ stack' = [SubSeq(stack, 1, Len(stack) - 1)
                           EXCEPT ![Len(stack) - 1].idx = @ + 1]
            /\ UNCHANGED pc
  /\ UNCHANGED <<maze, _cells, trace, result, raised, astar, last>>
  /\ UNCHANGED drivervars

\* _reset_cells_visited clearing the first row only.
_reset_cells_visited_first_row(g) ==
  [p \in DOMAIN g |-> IF p[1] = 0 THEN [g[p] EXCEPT !.visited = FALSE] ELSE g[p]]

\* The grid after the loops of _reset_cells_visited.
_reset_cells_visited(g) == [p \in DOMAIN g |-> [g[p] EXCEPT !.visited = FALSE]]

\* Maze._reset_cells_visited
ResetCellsVisited ==
  /\ pc = "idle"
  /\ last' = [op |-> "_reset_cells_visited", args |-> << >>]
  /\ LET c == cells(_cells) IN
       _cells' = [c EXCEPT !.grid = _reset_cells_visited(@)]
  /\ UNCHANGED <<maze, pc, stack, trace, result, raised, astar>>

\* Lines 214-217 with the left and right walls exchanged.
passable_swapped(g, c, n) ==
  \/ (c[1] = n[1] /\ c[2] < n[2] /\ ~ g[c].has_left_wall)
  \/ (c[1] = n[1] /\ c[2] > n[2] /\ ~ g[c].has_right_wall)
  \/ (c[2] = n[2] /\ c[1] < n[1] /\ ~ g[c].has_bottom_wall)
  \/ (c[2] = n[2] /\ c[1] > n[1] /\ ~ g[c].has_top_wall)

\* Lines 214-217 without the wall tests.
passable_no_walls(g, c, n) ==
  \/ (c[1] = n[1] /\ c[2] < n[2])
  \/ (c[1] = n[1] /\ c[2] > n[2])
  \/ (c[2] = n[2] /\ c[1] < n[1])
  \/ (c[2] = n[2] /\ c[1] > n[1])

\* The test of lines 214-217: no wall on cell c's side towards neighbour n.
passable(g, c, n) ==
  \/ (c[1] = n[1] /\ c[2] < n[2] /\ ~ g[c].has_right_wall)
  \/ (c[1] = n[1] /\ c[2] > n[2] /\ ~ g[c].has_left_wall)
  \/ (c[2] = n[2] /\ c[1] < n[1] /\ ~ g[c].has_bottom_wall)
  \/ (c[2] = n[2] /\ c[1] > n[1] /\ ~ g[c].has_top_wall)

\* Entering _solve_r(cell, i, j): lines 200-209.  Reaching the exit returns
\* True through every active frame (line 222), which emits nothing more.
EnterSolveR(c, ij) ==
  LET g == [c.grid EXCEPT ![ij].visited = TRUE]
      nbrs == _get_neighbors(ij[1], ij[2])
  IN  IF ij = Exit
        THEN /\ stack' = << >>
             /\ pc' = "idle"
             /\ result' = "true"
             /\ _cells' = [c EXCEPT !.grid = g]
             /\ UNCHANGED raised
        ELSE IF nbrs = << >>
          THEN Raise("ValueError", [c EXCEPT !.grid = g]) /\ UNCHANGED result
          ELSE /\ \E order \in shuffle(nbrs) :
                    stack' = Append(stack, [i |-> ij[1], j |-> ij[2],
                                            neighbors |-> order, idx |-> 1])
               /\ _cells' = [c EXCEPT !.grid = g]
               /\ pc' = "solving"
               /\ UNCHANGED <<raised, result>>

\* Maze.solve(window), with a window to draw on as in line 294.
Solve ==
  /\ pc = "idle"
  /\ last' = [op |-> "solve", args |-> << >>]
  /\ trace' = << >>
  /\ LET c == cells(_cells) IN
       IF <<0, 0>> \notin DOMAIN c.grid
         THEN Raise("IndexError", c) /\ result' = "none"
         ELSE EnterSolveR(c, <<0, 0>>)
  /\ UNCHANGED <<maze, astar>>

\* The loop of _solve_r without the `not neighbor.visited` test of line 213.
SolveRLoop_no_visited_test ==
  /\ pc = "solving"
  /\ LET f == stack[Len(stack)] IN
       /\ f.idx <= Len(f.neighbors)
       /\ LET n == f.neighbors[f.idx] IN
            IF passable(_cells.grid, <<f.i, f.j>>, n)
              THEN /\ trace' = Append(trace, [from |-> <<f.i, f.j>>, to |-> n,
                                              undo |-> FALSE])
                   /\ EnterSolveR(_cells, n)
              ELSE /\ stack' = [stack EXCEPT ![Len(stack)].idx = @ + 1]
                   /\ UNCHANGED <<_cells, pc, raised, trace, result>>
  /\ UNCHANGED <<maze, astar, last>>
  /\ UNCHANGED drivervars

\* One iteration of the loop of _solve_r: lines 211-221.
SolveRLoop ==
  /\ pc = "solving"
  /\ LET f == stack[Len(stack)] IN
       /\ f.idx <= Len(f.neighbors)
       /\ LET n == f.neighbors[f.idx] IN
            IF ~ _cells.grid[n].visited /\ passable(_cells.grid, <<f.i, f.j>>, n)
              THEN /\ trace' = Append(trace, [from |-> <<f.i, f.j>>, to |-> n,
                                              undo |-> FALSE])
                   /\ EnterSolveR(_cells, n)
              ELSE /\ stack' = [stack EXCEPT ![Len(stack)].idx = @ + 1]
                   /\ UNCHANGED <<_cells, pc, raised, trace, result>>
  /\ UNCHANGED <<maze, astar, last>>
  /\ UNCHANGED drivervars

\* _solve_r returning False with the undo drawn from the neighbour to the cell.
SolveRReturn_undo_reversed ==
  /\ pc = "solving"
  /\ LET f == stack[Len(stack)] IN
       /\ f.idx > Len(f.neighbors)
       /\ IF Len(stack) = 1
            THEN /\ stack' = << >>
                 /\ pc' = "idle"
                 /\ result' = "false"
                 /\ UNCHANGED trace
            ELSE /\ stack' = [SubSeq(stack, 1, Len(stack) - 1)
                                EXCEPT ![Len(stack) - 1].idx = @ + 1]
                 /\ trace' = Append(trace,
                      [from |-> <<f.i, f.j>>,
                       to |-> <<stack[Len(stack) - 1].i, stack[Len(stack) - 1].j>>,
                       undo |-> TRUE])
                 /\ UNCHANGED <<pc, result>>
  /\ UNCHANGED <<maze, _cells, raised, astar, last>>
  /\ UNCHANGED drivervars

\* _solve_r returns False (line 226); its caller draws the undo (line 224).
SolveRReturn ==
  /\ pc = "solving"
  /\ LET f == stack[Len(stack)] IN
       /\ f.idx > Len(f.neighbors)
       /\ IF Len(stack) = 1
            THEN /\ stack' = << >>
                 /\ pc' = "idle"
                 /\ result' = "false"
                 /\ UNCHANGED trace
            ELSE /\ stack' = [SubSeq(stack, 1, Len(stack) - 1)
                                EXCEPT ![Len(stack) - 1].idx = @ + 1]
                 /\ trace' = Append(trace,
                      [from |-> <<stack[Len(stack) - 1].i, stack[Len(stack) - 1].j>>,
                       to |-> <<f.i, f.j>>, undo |-> TRUE])
                 /\ UNCHANGED <<pc, result>>
  /\ UNCHANGED <<maze, _cells, raised, astar, last>>
  /\ UNCHANGED drivervars

\* Maze.toggle_cell_walls
ToggleCellWalls(row, col) ==
  /\ pc = "idle"
  /\ last' = [op |-> "toggle_cell_walls", args |-> <<row, col>>]
  /\ LET c == cells(_cells) IN
       /\ <<row, col>> \in DOMAIN c.grid
       /\ _cells' = [c EXCEPT !.grid[<<row, col>>] =
                       [@ EXCEPT !.has_left_wall = ~ @,
                                 !.has_top_wall = ~ @,
                                 !.has_right_wall = ~ @,
                                 !.has_bottom_wall = ~ @]]
  /\ UNCHANGED <<maze, pc, stack, trace, result, raised, astar>>

\* A direct call maze._break_walls_between(cells[i1][j1], i1, j1, cells[i2][j2], i2, j2)
BreakWallsBetween(c1, c2) ==
  /\ pc = "idle"
  /\ last' = [op |-> "_break_walls_between", args |-> <<c1, c2>>]
  /\ LET c == cells(_cells) IN
       /\ c1 \in DOMAIN c.grid
       /\ c2 \in DOMAIN c.grid
       /\ IF _break_walls_between_raises(c1, c2)
            THEN Raise("Exception", c)
            ELSE /\ _cells' = [c EXCEPT !.grid = _break_walls_between(@, c1, c2)]
                 /\ UNCHANGED <<pc, raised, stack>>
  /\ UNCHANGED <<maze, trace, result, astar>>

\* tests.py:65  maze.cells[i][j].visited = True
SetVisited(ij) ==
  /\ pc = "idle"
  /\ last' = [op |-> "visited", args |-> ij]
  /\ LET c == cells(_cells) IN
       /\ ij \in DOMAIN c.grid
       /\ _cells' = [c EXCEPT !.grid[ij].visited = TRUE]
  /\ UNCHANGED <<maze, pc, stack, trace, result, raised, astar>>

\* tests.py:9  cells = m1.cells
ReadCells ==
  /\ pc = "idle"
  /\ last' = [op |-> "cells", args |-> << >>]
  /\ _cells' = cells(_cells)
  /\ UNCHANGED <<maze, pc, stack, trace, result, raised, astar>>

\* ------------------------------------------------------------ A* solve
Abs(n) == IF n < 0 THEN -n ELSE n

\* The Manhattan heuristic on (row, col).
Manhattan(a, b) == Abs(a[1] - b[1]) + Abs(a[2] - b[2])

\* An edge of the open graph: the wall between a and b has been broken.
WallTowards(g, a, b) ==
  IF a[1] = b[1]
    THEN IF a[2] < b[2] THEN g[a].has_right_wall ELSE g[a].has_left_wall
    ELSE IF a[1] < b[1] THEN g[a].has_bottom_wall ELSE g[a].has_top_wall

OpenEdge(g, a, b) == ~ WallTowards(g, a, b) /\ ~ WallTowards(g, b, a)

\* A fixed rule for equal scores: row-major order.
Before(a, b) == a[1] < b[1] \/ (a[1] = b[1] /\ a[2] <= b[2])

RECURSIVE ReconstructPath(_, _)
ReconstructPath(parent, n) ==
  IF parent[n] = n
    THEN << >>
    ELSE Append(ReconstructPath(parent, parent[n]),
                [from |-> parent[n], to |-> n, undo |-> FALSE])

RECURSIVE AStarSearch(_, _, _, _, _)
AStarSearch(g, open, closed, gscore, parent) ==
  IF open = {}
    THEN << >>
    ELSE
      LET f(n) == gscore[n] + Manhattan(n, Exit)
          cur == CHOOSE n \in open :
                   \A m \in open : f(n) < f(m) \/ (f(n) = f(m) /\ Before(n, m))
          better == {n \in Range(_get_neighbors(cur[1], cur[2])) :
                       /\ OpenEdge(g, cur, n)
                       /\ n \notin closed
                       /\ (n \notin open \/ gscore[cur] + 1 < gscore[n])}
      IN  IF cur = Exit
            THEN ReconstructPath(parent, cur)
            ELSE AStarSearch(g, (open \ {cur}) \cup better, closed \cup {cur},
                   [n \in DOMAIN gscore |->
                      IF n \in better THEN gscore[cur] + 1 ELSE gscore[n]],
                   [n \in DOMAIN parent |->
                      IF n \in better THEN cur ELSE parent[n]])

\* SolveAStar(grid): the forward-only steps from (0,0) to the exit, or empty.
SolveAStarSteps(g) ==
  AStarSearch(g, {<<0, 0>>}, {}, [n \in DOMAIN g |-> 0], [n \in DOMAIN g |-> n])

\* maze.solve(algorithm="astar")
SolveAStar ==
  /\ pc = "idle"
  /\ last' = [op |-> "solve_astar", args |-> << >>]
  /\ LET c == cells(_cells) IN
       IF <<0, 0>> \notin DOMAIN c.grid
         THEN Raise("IndexError", c) /\ UNCHANGED astar
         ELSE /\ astar' = SolveAStarSteps(c.grid)
              /\ _cells' = c
              /\ UNCHANGED <<pc, raised, stack>>
  /\ UNCHANGED <<maze, trace, result>>

\* ------------------------------------------------ __main__, lines 287-294
Walls(g) ==
  [p \in DOMAIN g |-> <<g[p].has_left_wall, g[p].has_top_wall,
                        g[p].has_right_wall, g[p].has_bottom_wall>>]

Main289 ==
  /\ main_pc = 289
  /\ BreakEntranceAndExit
  /\ main_pc' = 290
  /\ UNCHANGED <<ncalls, run, first_walls>>

Main290 ==
  /\ main_pc = 290
  /\ BreakWallsR
  /\ main_pc' = 291
  /\ UNCHANGED <<ncalls, run, first_walls>>

Main291 ==
  /\ main_pc = 291
  /\ ResetCellsVisited
  /\ main_pc' = 294
  /\ UNCHANGED <<ncalls, run, first_walls>>

Main294 ==
  /\ main_pc = 294
  /\ Solve
  /\ main_pc' = 296
  /\ UNCHANGED <<ncalls, run, first_walls>>

\* The A* solve of the maze the depth-first solve has just run on.
MainAStar ==
  /\ main_pc = 296
  /\ SolveAStar
  /\ main_pc' = 297
  /\ UNCHANGED <<ncalls, run, first_walls>>

\* The program is started a second time with the same arguments and seed
\* (line 287); the walls of the first run's maze are kept for comparison.
MainRerun ==
  /\ main_pc = 294
  /\ pc = "idle"
  /\ run = 1
  /\ run' = 2
  /\ first_walls' = Walls(_cells.grid)
  /\ _cells' = None
  /\ main_pc' = 289
  /\ last' = NoCall
  /\ UNCHANGED <<maze, pc, stack, trace, result, raised, astar, ncalls>>

\* ---------------------------------------------- the test harness, tests.py
Harness == main_pc = 0 /\ ncalls < MaxCalls

Called == ncalls' = ncalls + 1 /\ UNCHANGED <<main_pc, run, first_walls>>

TestBreakEntranceAndExit == Harness /\ BreakEntranceAndExit /\ Called

TestBreakWallsR == Harness /\ BreakWallsR /\ Called

TestResetCellsVisited == Harness /\ ResetCellsVisited /\ Called

TestSolve == Harness /\ Solve /\ Called

TestToggleCellWalls ==
  Harness /\ Called /\
  \E row \in 0 .. maze.num_rows - 1, col \in 0 .. maze.num_cols - 1 :
    ToggleCellWalls(row, col)

TestBreakWallsBetween ==
  Harness /\ Called /\
  \E c1 \in Coords(maze.num_rows, maze.num_cols),
     c2 \in Coords(maze.num_rows, maze.num_cols) : BreakWallsBetween(c1, c2)

TestSetVisited ==
  Harness /\ Called /\
  \E ij \in Coords(maze.num_rows, maze.num_cols) : SetVisited(ij)

TestReadCells == Harness /\ ReadCells /\ Called

Next ==
  \/ Main289
  \/ Main290
  \/ Main291
  \/ Main294
  \/ MainAStar
  \/ MainRerun
  \/ BreakWallsRLoop
  \/ BreakWallsRReturn
  \/ SolveRLoop
  \/ SolveRReturn

TestNext ==
  \/ TestBreakEntranceAndExit
  \/ TestBreakWallsR
  \/ TestResetCellsVisited
  \/ TestSolve
  \/ TestToggleCellWalls
  \/ TestBreakWallsBetween
  \/ TestSetVisited
  \/ TestReadCells
  \/ BreakWallsRLoop
  \/ BreakWallsRReturn
  \/ SolveRLoop
  \/ SolveRReturn

\* The program maze.py.
Spec == Init /\ [][Next]_vars

\* A Maze whose methods a test calls in any order, MaxCalls times.
TestSpec == TestInit /\ [][TestNext]_vars

\* The program runs to completion: a recursive call that can take a step does.
FairSpec ==
  /\ Spec
  /\ WF_vars(BreakWallsRLoop)
  /\ WF_vars(BreakWallsRReturn)
  /\ WF_vars(SolveRLoop)
  /\ WF_vars(SolveRReturn)

\* ------------------------------------------------------------ properties
Grid == _cells.grid

AllCells == Coords(maze.num_rows, maze.num_cols)

Adjacent(a, b) == Manhattan(a, b) = 1

\* The interior wall pairs that are broken on both sides, each counted once.
BrokenPairs(g) ==
  {e \in (DOMAIN g) \X (DOMAIN g) :
     /\ Adjacent(e[1], e[2])
     /\ Before(e[1], e[2])
     /\ ~ WallTowards(g, e[1], e[2])
     /\ ~ WallTowards(g, e[2], e[1])}

RECURSIVE ReachableFrom(_, _)
ReachableFrom(g, seen) ==
  LET more == {b \in DOMAIN g : \E a \in seen : Adjacent(a, b) /\ OpenEdge(g, a, b)}
  IN  IF more \subseteq seen THEN seen ELSE ReachableFrom(g, seen \cup more)

ForwardCount(t) == Cardinality({k \in 1 .. Len(t) : ~ t[k].undo})

\* C1: after the generation sequence of __main__ (entrance and exit broken,
\* carved from (0,0), visited reset) the broken interior wall pairs form a
\* spanning tree: there are rows*cols - 1 of them and every cell is reachable
\* from (0,0) through them.
C1_SpanningTree ==
  main_pc = 294 =>
    /\ DOMAIN Grid = AllCells
    /\ Cardinality(BrokenPairs(Grid)) = maze.num_rows * maze.num_cols - 1
    /\ ReachableFrom(Grid, {<<0, 0>>}) = AllCells

C1_Witness ==
  /\ main_pc = 294
  /\ maze.num_rows = 2
  /\ maze.num_cols = 3
  /\ Cardinality(BrokenPairs(Grid)) = 5

\* C2: in every reachable state, for every pair of grid-adjacent cells A and B,
\* A's wall facing B is absent if and only if B's wall facing A is absent.
C2_WallsConsistent ==
  \A a \in DOMAIN Grid, b \in DOMAIN Grid :
    Adjacent(a, b) => (WallTowards(Grid, a, b) <=> WallTowards(Grid, b, a))

\* C3: a call of _break_walls_between on two cells that are not grid-adjacent
\* raises and clears no wall flag.
C3_NonAdjacentFails ==
  [][(/\ ncalls' = ncalls + 1
      /\ last'.op = "_break_walls_between"
      /\ ~ Adjacent(last'.args[1], last'.args[2]))
       => (/\ raised' = "Exception"
           /\ Walls(_cells'.grid) = Walls(cells(_cells).grid))]_vars

\* C4: on a maze made by the generation sequence the depth-first solve ends,
\* returns True, and its trace starts with a step from (0,0) and ends with a
\* step to the exit cell (rows-1, cols-1).
C4_SolveOutcome ==
  (main_pc \in {296, 297} /\ pc = "idle") =>
    /\ result = "true"
    /\ trace # << >>
    /\ trace[1].from = <<0, 0>>
    /\ trace[Len(trace)].to = <<maze.num_rows - 1, maze.num_cols - 1>>

C4_DfsSolves ==
  /\ []C4_SolveOutcome
  /\ (main_pc = 296) ~> (main_pc = 296 /\ pc = "idle" /\ result = "true")

C4_Witness ==
  /\ main_pc = 296
  /\ pc = "idle"
  /\ result = "true"
  /\ \E k \in 1 .. Len(trace) : trace[k].undo

\* C5: the first access to cells gives rows rows of cols cells, all walls
\* present and none visited; every later access gives the same cells, with
\* the wall and visited changes made since.
FreshGrid(g) ==
  /\ {p[1] : p \in DOMAIN g} = 0 .. maze.num_rows - 1
  /\ \A r \in 0 .. maze.num_rows - 1 :
       {p[2] : p \in {q \in DOMAIN g : q[1] = r}} = 0 .. maze.num_cols - 1
  /\ Cardinality(DOMAIN g) = maze.num_rows * maze.num_cols
  /\ \A p \in DOMAIN g :
       /\ g[p].has_left_wall /\ g[p].has_top_wall
       /\ g[p].has_right_wall /\ g[p].has_bottom_wall
       /\ ~ g[p].visited

C5_CellsStable ==
  [][run' = run =>
       /\ _cells.id # 0 => _cells'.id = _cells.id
       /\ (ncalls' = ncalls + 1 /\ last'.op = "cells") =>
            IF _cells.id = 0 THEN FreshGrid(_cells'.grid)
                             ELSE _cells'.grid = _cells.grid]_vars

C5_Witness ==
  /\ last.op = "cells"
  /\ ncalls >= 2
  /\ _cells.id = 1
  /\ \E p \in DOMAIN Grid : Grid[p].visited \/ ~ Grid[p].has_left_wall

\* C6: once _break_entrance_and_exit has run, cell (0,0) has no top and no
\* left wall and cell (rows-1, cols-1) has no bottom and no right wall, also
\* after the carving and the visited reset of __main__.
C6_EntranceExitOpen ==
  (/\ main_pc >= 290 \/ last.op = "_break_entrance_and_exit"
   /\ maze.num_rows >= 1
   /\ maze.num_cols >= 1) =>
    /\ ~ Grid[<<0, 0>>].has_top_wall
    /\ ~ Grid[<<0, 0>>].has_left_wall
    /\ ~ Grid[<<maze.num_rows - 1, maze.num_cols - 1>>].has_bottom_wall
    /\ ~ Grid[<<maze.num_rows - 1, maze.num_cols - 1>>].has_right_wall

C6_Witness ==
  /\ main_pc = 294
  /\ maze.num_rows = 2
  /\ maze.num_cols = 2
  /\ ~ Grid[<<1, 1>>].has_bottom_wall

\* C7: after _reset_cells_visited every cell of the grid has visited = false,
\* whichever cells were visited before; so after the generation sequence too.
C7_ResetClearsAll ==
  last.op = "_reset_cells_visited" =>
    /\ DOMAIN Grid = AllCells
    /\ \A p \in AllCells : ~ Grid[p].visited

C7_Witness ==
  /\ main_pc = 0
  /\ last.op = "_reset_cells_visited"
  /\ trace # << >>
  /\ \A p \in AllCells : ~ Grid[p].visited

\* C8: a Maze with rows < 1, cols < 1 or cells with left >= right or
\* top >= bottom fails at construction, before any operation runs on it.
InvalidConstruction ==
  \/ maze.num_rows < 1
  \/ maze.num_cols < 1
  \/ Cell__post_init__(maze.x1, maze.y1,
                       maze.x1 + maze.cell_size_x, maze.y1 + maze.cell_size_y)

C8_InvalidConstructionFails ==
  InvalidConstruction => (pc = "raised" /\ last = NoCall)

\* C9: two generation runs with the same dimensions and the same seed give
\* the same wall flags on every cell.
C9_SameSeedSameMaze ==
  (run = 2 /\ main_pc = 294) => Walls(Grid) = first_walls

\* C10: on the generated maze the A* solve returns a forward-only path from
\* (0,0) to (rows-1, cols-1) with at most as many edges as the depth-first
\* solve emitted forward steps.
ForwardPath(g, p) ==
  /\ p # << >>
  /\ p[1].from = <<0, 0>>
  /\ p[Len(p)].to = <<maze.num_rows - 1, maze.num_cols - 1>>
  /\ \A k \in 1 .. Len(p) :
       /\ ~ p[k].undo
       /\ Adjacent(p[k].from, p[k].to)
       /\ ~ WallTowards(g, p[k].from, p[k].to)
       /\ ~ WallTowards(g, p[k].to, p[k].from)
       /\ k < Len(p) => p[k].to = p[k + 1].from

C11_CarveRaisesNothing ==
  (/\ ncalls = 1
   /\ last.op = "_break_walls_r"
   /\ maze.num_rows >= 1
   /\ maze.num_cols >= 1) => raised = "none"

\* C12: in a depth-first solve on any grid state, every forward step joins two
\* grid-adjacent cells with no wall on the from-cell's side, its to-cell is
\* unvisited when the step is emitted, and no cell is the to-cell of two
\* forward steps of the same solve.
ForwardSteps(t) == {k \in 1 .. Len(t) : ~ t[k].undo}

C12_TraceEdges ==
  last.op = "solve" =>
    /\ \A k \in ForwardSteps(trace) :
         /\ trace[k].from \in AllCells
         /\ trace[k].to \in AllCells
         /\ Adjacent(trace[k].from, trace[k].to)
         /\ ~ WallTowards(Grid, trace[k].from, trace[k].to)
    /\ \A k \in ForwardSteps(trace), m \in ForwardSteps(trace) :
         trace[k].to = trace[m].to => k = m

C12_ForwardSteps ==
  /\ []C12_TraceEdges
  /\ [][(Len(trace') = Len(trace) + 1 /\ ~ trace'[Len(trace')].undo)
          => /\ ~ _cells.grid[trace'[Len(trace')].to].visited
             /\ _cells'.grid[trace'[Len(trace')].to].visited]_vars

C12_Witness ==
  /\ main_pc = 0
  /\ last.op = "solve"
  /\ result = "false"
  /\ Cardinality(ForwardSteps(trace)) >= 2
  /\ \E p \in AllCells : ~ Grid[p].visited

\* The forward steps of a trace that no later undo has taken back, in order,
\* when every undo takes back the latest such step; an undo that does not is
\* kept, so that a trace without stack discipline leaves an undo behind.
RECURSIVE OpenSteps(_)
OpenSteps(t) ==
  IF t = << >>
    THEN << >>
    ELSE LET before == OpenSteps(SubSeq(t, 1, Len(t) - 1))
             s == t[Len(t)]
         IN  IF /\ s.undo
                /\ before # << >>
                /\ before[Len(before)] = [s EXCEPT !.undo = FALSE]
               THEN SubSeq(before, 1, Len(before) - 1)
               ELSE Append(before, s)

\* The cells a sequence of steps leads through, starting at (0,0).
PathCells(p) == << <<0, 0>> >> \o [k \in 1 .. Len(p) |-> p[k].to]

\* The steps are forward steps, each starting where the one before ended, the
\* first at (0,0), and no cell is passed twice.
SimplePath(p) ==
  /\ \A k \in 1 .. Len(p) : ~ p[k].undo /\ p[k].from = PathCells(p)[k]
  /\ \A k \in 1 .. Len(p) + 1, m \in 1 .. Len(p) + 1 :
       PathCells(p)[k] = PathCells(p)[m] => k = m

C13_TraceShape ==
  last.op = "solve" =>
    LET open == OpenSteps(trace) IN
      /\ SimplePath(open)
      /\ pc = "solving" =>
           /\ Len(stack) = Len(open) + 1
           /\ \A k \in 1 .. Len(stack) :
                <<stack[k].i, stack[k].j>> = PathCells(open)[k]
      /\ (pc = "idle" /\ result = "true") =>
           PathCells(open)[Len(open) + 1] = <<maze.num_rows - 1, maze.num_cols - 1>>
      /\ (pc = "idle" /\ result = "false") => open = << >>

\* An undo is emitted in the step in which a call of _solve_r below the first
\* returns False, for the edge that led into it, and in no other step.
C13_UndoStep ==
  LET undone == Len(trace') = Len(trace) + 1 /\ trace'[Len(trace')].undo
      failed == /\ pc = "solving"
                /\ Len(stack) >= 2
                /\ stack[Len(stack)].idx > Len(stack[Len(stack)].neighbors)
  IN  /\ undone <=> (failed /\ Len(stack') = Len(stack) - 1)
      /\ undone =>
           /\ trace'[Len(trace')].from =
                <<stack[Len(stack) - 1].i, stack[Len(stack) - 1].j>>
           /\ trace'[Len(trace')].to = <<stack[Len(stack)].i, stack[Len(stack)].j>>

\* C13: an undo step is emitted exactly when the search below its edge's
\* forward step has returned failure, after all steps of that search and
\* before any step to another neighbour; so after a successful solve the
\* forward steps without a later undo form, in order, a simple path from (0,0)
\* to (rows-1, cols-1), and after a failed solve every forward step is undone.
C13_UndoDiscipline == []C13_TraceShape /\ [][C13_UndoStep]_vars

C13_Witness ==
  /\ main_pc = 0
  /\ last.op = "solve"
  /\ pc = "idle"
  /\ result = "true"
  /\ \E k \in 1 .. Len(trace) : trace[k].undo
  /\ Len(OpenSteps(trace)) >= 2
====
